---- MODULE Spec2Model ----
(***************************************************************************)
(* Model of backend/lambda_function.py: one invocation of handle_event,    *)
(* the chunked batch of analyze_function tasks run under an                *)
(* asyncio.Semaphore, and get_metric's retry loop.                         *)
(*                                                                         *)
(* One asyncio event loop runs everything, so every action below is the    *)
(* code executed by one task between two awaits.  The remote calls         *)
(* (asyncio.to_thread) and the backoff sleeps are the await points; their  *)
(* outcomes are chosen by the environment.                                 *)
(***************************************************************************)
EXTENDS Integers, Sequences, FiniteSets, TLC

\* Program constants (lambda_function.py lines 15-16).
MAX_RETRIES == 5
RETRY_SLEEP == 1

\* MAX_CONCURRENT_TASKS (10 in the source) and BATCH_SIZE (500 in the source)
\* are scaled down so that a small function list fills the gate and spans
\* several chunks.
MAX_CONCURRENT_TASKS == 2
BATCH_SIZE == 3

\* Bounds of the environment: the functions returned by list_functions, and
\* the failing or empty answers given in one run.  A run over a single
\* function may be given MaxThrottles Throttling answers, enough to exhaust
\* get_metric's retries, and MaxFaults other failing or empty answers; a run
\* over several functions MaxFaults failing or empty answers of any kind, all
\* to the calls of one function (and to the upload).
MaxFunctions == 4
MaxThrottles == 5
MaxFaults == 1

--------------------------------------------------------------------------
(* Request data                                                            *)

\* A date string "YYYY-MM-DD" is the tuple <<Y, M, D>> of its fields; the
\* missing (or empty) field is <<>>.  <<2024, 2, 30>> is a well-shaped string
\* that names no day.  The requests cover a start_date equal to the end_date,
\* one day after it and two days after it.
StartDates == { <<2024, 1, 31>>, <<2024, 2, 1>>, <<2024, 2, 2>>,
                <<2024, 2, 30>> }
EndDates   == { <<2024, 1, 31>>, <<2024, 2, 30>> }

\* body "none": no body or an empty one; "dict": a dict, or the JSON text of
\* one, which json.loads turns into it; "badjson": a string json.loads rejects.
Events ==
    [ body       : {"none", "dict", "badjson"},
      region     : {"", "us-east-1"},
      start_date : {<<>>} \cup StartDates,
      end_date   : {<<>>} \cup EndDates,
      bucket_name: {"", "reports"} ]

IsLeap(y) == (y % 4 = 0 /\ y % 100 # 0) \/ y % 400 = 0

DaysInMonth(y, m) ==
    IF m = 2 THEN (IF IsLeap(y) THEN 29 ELSE 28)
    ELSE IF m \in {4, 6, 9, 11} THEN 30 ELSE 31

RECURSIVE DaysBeforeMonth(_, _)
DaysBeforeMonth(y, m) ==
    IF m <= 1 THEN 0 ELSE DaysBeforeMonth(y, m - 1) + DaysInMonth(y, m - 1)

\* datetime.strptime(s, "%Y-%m-%d"): ValueError unless the fields name a day.
StrptimeOk(s) ==
    /\ Len(s) = 3
    /\ s[2] \in 1..12
    /\ s[3] \in 1..DaysInMonth(s[1], s[2])

\* The parsed datetime, as the number of days since 2024-01-01 (midnight).
Strptime(s) == 365 * (s[1] - 2024) + DaysBeforeMonth(s[1], s[2]) + (s[3] - 1)

\* timedelta(days=1)
OneDay == 1

--------------------------------------------------------------------------
(* Function configurations, metrics and rows                               *)

\* A configuration (the dict get_function_configuration returns) is a record
\* of the keys it holds; dict.get(key, default) gives the default for a key
\* it lacks.
ConfigGet(config, key, default) ==
    IF key \in DOMAIN config THEN config[key] ELSE default

\* The configurations of the account's functions; function number k has
\* configuration number ((k - 1) % Len(Configs)) + 1.  The second holds no
\* Architectures, Timeout or PackageType key.
Configs ==
    << [MemorySize |-> 128, Runtime |-> "python3.12",
        Architectures |-> <<"x86_64">>, Timeout |-> 3, PackageType |-> "Zip"],
       [MemorySize |-> 256, Runtime |-> "python3.12"],
       [MemorySize |-> 512, Runtime |-> "java17",
        Architectures |-> <<"x86_64">>, Timeout |-> 30,
        PackageType |-> "Image"],
       [MemorySize |-> 512, Runtime |-> "nodejs20.x",
        Architectures |-> <<"arm64">>, Timeout |-> 3, PackageType |-> "Zip"] >>

ConfigOf(name) == Configs[((name - 1) % Len(Configs)) + 1]

\* No configuration held (before the fetch answers, or when it fails).
NoConfig == [unset |-> TRUE]

\* get_metric's arguments, in the order of the dict literal of lines 125-131,
\* with the key under which each value is stored.
MetricSpecs ==
    << [name |-> "Invocations",          stat |-> "Sum",
        key  |-> "Invocations"],
       [name |-> "Errors",               stat |-> "Sum",
        key  |-> "Errors"],
       [name |-> "Throttles",            stat |-> "Sum",
        key  |-> "Throttles"],
       [name |-> "Duration",             stat |-> "Average",
        key  |-> "Duration (sec)"],
       [name |-> "ConcurrentExecutions", stat |-> "Sum",
        key  |-> "ConcurrentExecutions"] >>

NumMetrics == Len(MetricSpecs)

\* runtime.startswith("java"): of the runtime names of the service, "java" is
\* a prefix of the java runtimes only.
StartsWithJava(runtime) ==
    runtime \in {"java8", "java8.al2", "java11", "java17", "java21"}

\* Mutant of ColdStartRisk: memory <= 256.
ColdStartRiskInclusive(config) ==
    LET memory  == ConfigGet(config, "MemorySize", 0)
        runtime == ConfigGet(config, "Runtime", "unknown")
        arch    == ConfigGet(config, "Architectures", <<"x86_64">>)[1]
    IN  IF memory <= 256 \/ StartsWithJava(runtime) \/ arch = "arm64"
        THEN "High" ELSE "Low"

\* Lines 120-123
ColdStartRisk(config) ==
    LET memory  == ConfigGet(config, "MemorySize", 0)
        runtime == ConfigGet(config, "Runtime", "unknown")
        arch    == ConfigGet(config, "Architectures", <<"x86_64">>)[1]
    IN  IF memory < 256 \/ StartsWithJava(runtime) \/ arch = "arm64"
        THEN "High" ELSE "Low"

\* round(x / 1000, 2), in hundredths of a second: x / 10 rounded half to even.
RoundDuration(x) ==
    LET q == x \div 10
        r == x % 10
    IN  IF r > 5 \/ (r = 5 /\ q % 2 = 1) THEN q + 1 ELSE q

\* The value stored in the row for metric number m.
MetricField(m, value) ==
    IF MetricSpecs[m].name = "Duration" THEN RoundDuration(value) ELSE value

\* A dict is the sequence of its <<key, value>> items in insertion order.
Keys(d) == [k \in 1..Len(d) |-> d[k][1]]

HasKey(d, key) == \E k \in 1..Len(d) : d[k][1] = key

\* d.get(key, default)
DictGet(d, key, default) ==
    IF HasKey(d, key)
    THEN d[CHOOSE k \in 1..Len(d) : d[k][1] = key][2]
    ELSE default

\* {**d, **e}: an item of e replaces the value of a key d holds, in place,
\* and is appended otherwise.
RECURSIVE DictMerge(_, _)
DictMerge(d, e) ==
    IF e = <<>> THEN d
    ELSE LET key == e[1][1]
             put == IF HasKey(d, key)
                    THEN [k \in 1..Len(d) |->
                            IF d[k][1] = key THEN e[1] ELSE d[k]]
                    ELSE Append(d, e[1])
         IN  DictMerge(put, Tail(e))

\* Lines 125-131: the metrics dict, from the values in the order fetched.
MetricsDict(metrics) ==
    [m \in 1..Len(metrics) |-> << MetricSpecs[m].key, metrics[m] >>]

\* Mutant of Row: a configuration without a Timeout key gives no
\* "Timeout (sec)" item.
RowSparse(name, config, metrics) ==
    DictMerge(
      << << "Function Name", name >>,
         << "Runtime", ConfigGet(config, "Runtime", "unknown") >>,
         << "Memory Size (MB)", ConfigGet(config, "MemorySize", 0) >> >>
      \o (IF "Timeout" \in DOMAIN config
          THEN << << "Timeout (sec)", config["Timeout"] >> >> ELSE <<>>)
      \o << << "Package Type", ConfigGet(config, "PackageType", "Zip") >>,
            << "Provisioned Concurrency",
               ConfigGet(ConfigGet(config, "ProvisionedConcurrencyConfig",
                            <<>>),
                  "AllocatedProvisionedConcurrentExecutions", 0) >>,
            << "Cold Start Risk", ColdStartRisk(config) >> >>,
      MetricsDict(metrics))

\* Lines 133-143: the row returned for a function.
Row(name, config, metrics) ==
    DictMerge(
      << << "Function Name", name >>,
         << "Runtime", ConfigGet(config, "Runtime", "unknown") >>,
         << "Memory Size (MB)", ConfigGet(config, "MemorySize", 0) >>,
         << "Timeout (sec)", ConfigGet(config, "Timeout", 0) >>,
         << "Package Type", ConfigGet(config, "PackageType", "Zip") >>,
         << "Provisioned Concurrency",
            ConfigGet(ConfigGet(config, "ProvisionedConcurrencyConfig", <<>>),
               "AllocatedProvisionedConcurrentExecutions", 0) >>,
         << "Cold Start Risk", ColdStartRisk(config) >> >>,
      MetricsDict(metrics))

--------------------------------------------------------------------------
(* State                                                                   *)

VARIABLES
    event,       \* the request handed to handle_event
    hpc,         \* position of handle_event
    response,    \* what handle_event returned
    window,      \* <<start_time, end_time>> once computed, else <<>>
    issued,      \* kinds of remote call issued so far
    functions,   \* all_functions: the listed function names, in list order
    bpc,         \* position of analyze_functions_in_batches
    bi,          \* its loop variable i
    chunks,      \* the chunks gathered so far, each the positions it holds
    insights,    \* its accumulated rows
    task,        \* the analyze_function task of each function
    semValue,    \* Semaphore._value
    waiters,     \* Semaphore._waiters, oldest first
    completion,  \* tasks of the current chunk in the order they settled
    throttles,   \* Throttling answers given so far
    faults,      \* other failing or empty answers given so far
    caught,      \* where the exception caught at line 90 came from, else ""
    sheet        \* the rows appended to the worksheet

vars == << event, hpc, response, window, issued, functions, bpc, bi, chunks,
           insights,
           task, semValue, waiters, completion, throttles, faults, caught,
           sheet >>

Names == 1..MaxFunctions

NoResponse == [statusCode |-> 0, body |-> ""]

NoAnswer == [kind |-> "none", code |-> "", Datapoints |-> <<>>]

IdleTask ==
    [ pc       |-> "idle",     \* idle, waiting, config, metric, sleep,
                               \* row, none, raised, cancelled
      config   |-> NoConfig,
      m        |-> 0,          \* number of the metric being fetched
      attempt  |-> 0,          \* get_metric's loop variable
      queries  |-> 0,          \* remote queries issued by the current get_metric
      slept    |-> 0,          \* seconds slept by the current get_metric
      metrics  |-> <<>>,       \* the metric fields obtained so far
      answer   |-> NoAnswer,   \* the last answer to a metric query of the task
      throttled|-> 0,          \* Throttling answers to the current get_metric
      returned |-> 0,          \* the value the last get_metric returned
      calls    |-> {},         \* the task's remote calls in flight
      total    |-> 0,          \* metric queries issued by the task in all
      troubles |-> 0,          \* failing or empty answers given to the task
      acquired |-> 0,          \* times the task was admitted by the semaphore
      released |-> 0 ]         \* times the task released the semaphore

Init ==
    /\ event \in Events
    /\ hpc = "start"
    /\ response = NoResponse
    /\ window = <<>>
    /\ issued = {}
    /\ functions = <<>>
    /\ bpc = "idle"
    /\ bi = 0
    /\ chunks = <<>>
    /\ insights = <<>>
    /\ task = [n \in Names |-> IdleTask]
    /\ semValue = 0
    /\ waiters = <<>>
    /\ completion = <<>>
    /\ throttles = 0
    /\ faults = 0
    /\ caught = ""
    /\ sheet = <<>>

build_response(status_code, body) == [statusCode |-> status_code, body |-> body]

--------------------------------------------------------------------------
(* handle_event, up to the call of analyze_functions_in_batches            *)

BatchVars == << functions, bpc, bi, chunks, insights, task, semValue, waiters,
                completion, throttles, faults >>

\* Mutant of InvalidRange: start_time > end_time.
InvalidRangeStrict(start_time, end_time) == start_time > end_time

\* Line 50: start_time >= end_time
InvalidRange(start_time, end_time) == start_time >= end_time

\* Mutant of Caught: `except ClientError`, which lets the errors of json.loads
\* and strptime pass to the caller.
CaughtClientError(where) ==
    IF where \in {"list", "batch", "upload"}
    THEN /\ response' = build_response(500, "Internal server error.")
         /\ hpc' = "done"
         /\ caught' = where
    ELSE /\ response' = response
         /\ hpc' = "raised"
         /\ caught' = caught

\* Lines 90-92: an exception raised at `where` inside the try block is caught
\* and the generic error returned.
Caught(where) ==
    /\ response' = build_response(500, "Internal server error.")
    /\ hpc' = "done"
    /\ caught' = where

\* A `return` of handle_event.
Returns(resp) ==
    /\ response' = resp
    /\ hpc' = "done"
    /\ caught' = caught

\* Lines 27-52: parse the body, check the fields, compute and check the window.
Validate ==
    /\ hpc = "start"
    /\ IF event.body = "none"
       THEN /\ Returns(build_response(400, "Missing request body."))
            /\ window' = window
       ELSE IF event.body = "badjson"
       THEN \* json.loads raises
            /\ Caught("json")
            /\ window' = window
       ELSE IF \/ event.region = ""
               \/ event.start_date = <<>>
               \/ event.end_date = <<>>
               \/ event.bucket_name = ""
       THEN /\ Returns(build_response(400,
                   "Missing one or more required fields in request body."))
            /\ window' = window
       ELSE IF ~StrptimeOk(event.start_date) \/ ~StrptimeOk(event.end_date)
       THEN \* strptime raises ValueError
            /\ Caught("strptime")
            /\ window' = window
       ELSE LET start_time == Strptime(event.start_date)
                end_time   == Strptime(event.end_date) + OneDay
            IN  /\ window' = <<start_time, end_time>>
                /\ IF InvalidRange(start_time, end_time)
                   THEN Returns(build_response(400,
                               "Start date must be before end date."))
                   ELSE /\ hpc' = "list"
                        /\ UNCHANGED << response, caught >>
    /\ UNCHANGED << event, issued, sheet >>
    /\ UNCHANGED BatchVars

\* Lines 55-61: list the functions (a remote call), then enter the batch:
\* a fresh semaphore, an empty report.
ListFunctions ==
    /\ hpc = "list"
    /\ issued' = issued \cup {"list"}
    /\ \/ \E n \in 0..MaxFunctions :
             /\ functions' = [k \in 1..n |-> k]
             /\ hpc' = "batch"
             /\ bpc' = "loop"
             /\ bi' = 0
             /\ semValue' = MAX_CONCURRENT_TASKS
             /\ UNCHANGED << response, faults, caught >>
       \/ \* the listing raises
          /\ faults < MaxFaults
          /\ faults' = faults + 1
          /\ Caught("list")
          /\ UNCHANGED << functions, bpc, bi, semValue >>
    /\ UNCHANGED << event, window, chunks, insights, task, waiters,
                    completion, throttles, sheet >>

--------------------------------------------------------------------------
(* Answers of the remote API                                               *)

\* An answer is a response or a raised error: kind "ok", "ClientError"
\* (botocore.exceptions.ClientError, with its error code) or "Exception" (any
\* error that is not a ClientError, such as a connection or read timeout).
ConfigAnswers(name) ==
    { [kind |-> "ok", code |-> "", config |-> ConfigOf(name)] }
    \cup { [kind |-> "ClientError", code |-> c, config |-> NoConfig] :
              c \in {"Throttling", "ResourceNotFoundException"} }
    \cup { [kind |-> "Exception", code |-> "", config |-> NoConfig] }

MetricAnswers ==
    { [kind |-> "ok", code |-> "", Datapoints |-> d] :
          d \in { <<>>, <<1500, 20>> } }
    \cup { [kind |-> "ClientError", code |-> c, Datapoints |-> <<>>] :
              c \in {"Throttling", "AccessDenied"} }
    \cup { [kind |-> "Exception", code |-> "", Datapoints |-> <<>>] }

IsThrottle(a) == a.kind = "ClientError" /\ a.code = "Throttling"

\* Answers that count against MaxFaults.
IsFault(a) ==
    \/ a.kind = "Exception"
    \/ a.kind = "ClientError" /\ a.code # "Throttling"

\* Answers that count against either budget: every answer but a response
\* with data.
IsTrouble(a) ==
    \/ a.kind # "ok"
    \/ "Datapoints" \in DOMAIN a /\ a.Datapoints = <<>>

\* The task's count of such answers, after answer a.
Noted(t, a) == t.troubles + (IF IsTrouble(a) THEN 1 ELSE 0)

--------------------------------------------------------------------------
(* analyze_function and get_metric: what one task does between two awaits  *)

Settled == {"row", "none", "raised", "cancelled"}

\* The remote calls: the configuration fetch of line 115 and the metric query
\* of lines 148-155 for metric number m, with the window it is given.
ConfigCall == [op |-> "get_function_configuration"]

MetricCall(m) ==
    [ op         |-> "get_metric_statistics",
      MetricName |-> MetricSpecs[m].name,
      Statistics |-> MetricSpecs[m].stat,
      StartTime  |-> window[1],
      EndTime    |-> window[2] ]

\* Leaving `async with semaphore` (line 112), by return or by an exception.
Exit(t, how) == [t EXCEPT !.pc = how, !.released = @ + 1]

\* Lines 112-115: admitted by the semaphore, the task issues the
\* configuration fetch.
Enter(t) ==
    [t EXCEPT !.pc = "config", !.acquired = @ + 1, !.calls = {ConfigCall}]

\* Mutant of StartMetric: the five metrics are queried at once
\* (asyncio.gather over the get_metric calls).
StartMetricAll(t, m) ==
    [t EXCEPT !.pc = "metric", !.m = m, !.attempt = 0, !.queries = 1,
              !.slept = 0, !.throttled = 0,
              !.calls = { MetricCall(k) : k \in m..NumMetrics },
              !.total = @ + 1]

\* Lines 146-155: get_metric starts for metric m and issues its first query.
StartMetric(t, m) ==
    [t EXCEPT !.pc = "metric", !.m = m, !.attempt = 0, !.queries = 1,
              !.slept = 0, !.throttled = 0, !.calls = {MetricCall(m)},
              !.total = @ + 1]

\* get_metric returns value: the field is stored (lines 126-130) and the next
\* metric is fetched, or the row is returned (lines 133-143).
Return(t, value) ==
    LET u == [t EXCEPT !.metrics = Append(@, MetricField(t.m, value)),
                       !.returned = value]
    IN  IF t.m < NumMetrics THEN StartMetric(u, t.m + 1) ELSE Exit(u, "row")

\* Mutant of OnConfig: a failed fetch is logged and the analysis goes on.
OnConfigProceeds(t, a) ==
    LET u == [t EXCEPT !.calls = {}, !.troubles = Noted(t, a)]
    IN  IF a.kind = "ok" THEN StartMetric([u EXCEPT !.config = a.config], 1)
        ELSE IF a.kind = "ClientError" THEN StartMetric(u, 1)
        ELSE Exit(u, "raised")

\* Lines 114-118: the configuration fetch answers.
OnConfig(t, a) ==
    LET u == [t EXCEPT !.calls = {}, !.troubles = Noted(t, a)]
    IN  IF a.kind = "ok" THEN StartMetric([u EXCEPT !.config = a.config], 1)
        ELSE IF a.kind = "ClientError" THEN Exit(u, "none")
        ELSE Exit(u, "raised")

\* Mutant of Backoff: a wait that grows linearly.
BackoffLinear(attempt) == RETRY_SLEEP * (attempt + 1)

\* Line 160: the wait after throttled attempt number attempt.
Backoff(attempt) == RETRY_SLEEP * (2 ^ attempt)

\* Mutant of HasNextAttempt: range(MAX_RETRIES + 1).
HasNextAttemptOneMore(attempt) == attempt + 1 < MAX_RETRIES + 1

\* Line 146: range(MAX_RETRIES) has a next value after attempt.
HasNextAttempt(attempt) == attempt + 1 < MAX_RETRIES

\* Line 157
FirstDatapoint(datapoints) == IF datapoints # <<>> THEN datapoints[1] ELSE 0

\* Mutant of OnMetric: the slot is given back for the time of the backoff.
OnMetricReleasing(t, a) ==
    LET u == [t EXCEPT !.answer = a, !.calls = {}, !.troubles = Noted(t, a)]
    IN  IF a.kind = "ok" THEN Return(u, FirstDatapoint(a.Datapoints))
        ELSE IF a.kind = "ClientError"
        THEN IF a.code = "Throttling"
             THEN [u EXCEPT !.pc = "sleep", !.throttled = @ + 1,
                            !.released = @ + 1]
             ELSE Return(u, 0)
        ELSE Exit(u, "raised")

\* Mutant of OnMetric: every ClientError is retried.
OnMetricRetryAll(t, a) ==
    LET u == [t EXCEPT !.answer = a, !.calls = {}, !.troubles = Noted(t, a)]
    IN  IF a.kind = "ok" THEN Return(u, FirstDatapoint(a.Datapoints))
        ELSE IF a.kind = "ClientError"
        THEN [u EXCEPT !.pc = "sleep", !.throttled = @ + 1]
        ELSE Exit(u, "raised")

\* Lines 156-163: a metric query answers.
OnMetric(t, a) ==
    LET u == [t EXCEPT !.answer = a, !.calls = {}, !.troubles = Noted(t, a)]
    IN  IF a.kind = "ok" THEN Return(u, FirstDatapoint(a.Datapoints))
        ELSE IF a.kind = "ClientError"
        THEN IF a.code = "Throttling"
             THEN [u EXCEPT !.pc = "sleep", !.throttled = @ + 1]
             ELSE Return(u, 0)
        ELSE Exit(u, "raised")

\* Lines 160, 146, 164-165: the backoff sleep ends; the loop issues the next
\* query or, after the last attempt, get_metric returns 0.
OnWake(t) ==
    LET u == [t EXCEPT !.slept = @ + Backoff(t.attempt)]
    IN  IF HasNextAttempt(t.attempt)
        THEN [u EXCEPT !.pc = "metric", !.attempt = @ + 1, !.queries = @ + 1,
                       !.calls = {MetricCall(t.m)}, !.total = @ + 1]
        ELSE Return(u, 0)

\* Mutant of GateOpen: the value is not looked at.
GateOpenUnbounded(value, queue) == queue = <<>>

\* Semaphore.locked() is false: a slot is free and nobody waits for one.
GateOpen(value, queue) == value > 0 /\ queue = <<>>

\* A waiter woken by release() finds a free slot.
CanAdmit(value) == value > 0

\* Task i becomes new: the semaphore's value follows its acquire and release,
\* and a task that settles is appended to the completion order.
TaskStep(i, new) ==
    /\ task' = [task EXCEPT ![i] = new]
    /\ semValue' = semValue + (new.released - task[i].released)
                            - (new.acquired - task[i].acquired)
    /\ completion' = IF new.pc \in Settled /\ task[i].pc \notin Settled
                     THEN Append(completion, i) ELSE completion

HandlerVars == << event, hpc, response, window, caught, sheet >>

\* The environment may still give a Throttling answer, or another failing or
\* empty answer, in this run.
MayThrottle ==
    IF Len(functions) = 1 THEN throttles < MaxThrottles
    ELSE throttles + faults < MaxFaults

MayFail ==
    IF Len(functions) <= 1 THEN faults < MaxFaults
    ELSE throttles + faults < MaxFaults

\* In a run over several functions the failing or empty answers all concern
\* one function: task i may be given one when no other task was.
OnlyTroubled(i) == \A j \in Names \ {i} : task[j].troubles = 0

\* Semaphore.acquire resumes for the oldest waiter.
Admit(i) ==
    /\ bpc = "gather"
    /\ waiters # <<>>
    /\ i = Head(waiters)
    /\ CanAdmit(semValue)
    /\ waiters' = Tail(waiters)
    /\ TaskStep(i, Enter(task[i]))
    /\ issued' = issued \cup {"config"}
    /\ UNCHANGED << HandlerVars, functions, bpc, bi, chunks, insights, throttles,
                    faults >>

ConfigReturn(i) ==
    /\ bpc = "gather"
    /\ i \in 1..Len(functions)
    /\ task[i].pc = "config"
    /\ \E a \in ConfigAnswers(functions[i]) :
          /\ IF a.kind = "ok" THEN faults' = faults
             ELSE MayFail /\ OnlyTroubled(i) /\ faults' = faults + 1
          /\ TaskStep(i, OnConfig(task[i], a))
          /\ issued' = IF a.kind = "ok" THEN issued \cup {"metric"} ELSE issued
    /\ UNCHANGED << HandlerVars, functions, bpc, bi, chunks, insights, waiters,
                    throttles >>

MetricReturn(i) ==
    /\ bpc = "gather"
    /\ task[i].pc = "metric"
    /\ \E a \in MetricAnswers :
          /\ IF IsThrottle(a)
             THEN MayThrottle /\ OnlyTroubled(i)
                  /\ throttles' = throttles + 1
                  /\ faults' = faults
             ELSE IF IsTrouble(a)
             THEN MayFail /\ OnlyTroubled(i)
                  /\ faults' = faults + 1
                  /\ throttles' = throttles
             ELSE UNCHANGED << throttles, faults >>
          /\ TaskStep(i, OnMetric(task[i], a))
    /\ UNCHANGED << HandlerVars, issued, functions, bpc, bi, chunks, insights,
                    waiters >>

SleepEnd(i) ==
    /\ bpc = "gather"
    /\ task[i].pc = "sleep"
    /\ TaskStep(i, OnWake(task[i]))
    /\ UNCHANGED << HandlerVars, issued, functions, bpc, bi, chunks, insights,
                    waiters, throttles, faults >>

--------------------------------------------------------------------------
(* analyze_functions_in_batches                                            *)

Min(a, b) == IF a <= b THEN a ELSE b

\* Mutant of Batch: all_functions[i:i + BATCH_SIZE + 1].
BatchOverlapping(i) ==
    [k \in 1..(Min(i + BATCH_SIZE + 1, Len(functions)) - i) |-> i + k]

\* all_functions[i:i + BATCH_SIZE], as positions of the list (from 1), in
\* list order.
Batch(i) == [k \in 1..(Min(i + BATCH_SIZE, Len(functions)) - i) |-> i + k]

Range(s) == { s[k] : k \in 1..Len(s) }

\* gather() schedules one task per coroutine, in list order, and each runs up
\* to its first await before any answer is delivered: it acquires the
\* semaphore and issues its configuration fetch, or joins the waiters.
RECURSIVE StartAll(_, _)
StartAll(batch, st) ==
    IF batch = <<>> THEN st
    ELSE LET k == Head(batch)
         IN  IF GateOpen(st.value, st.queue)
             THEN StartAll(Tail(batch),
                     [st EXCEPT !.task[k] = Enter(IdleTask),
                                !.value = @ - 1])
             ELSE StartAll(Tail(batch),
                     [st EXCEPT !.task[k] = [IdleTask EXCEPT !.pc = "waiting"],
                                !.queue = Append(@, k)])

\* Lines 100-105: the next chunk's coroutines are created and gathered.
Launch ==
    /\ hpc = "batch"
    /\ bpc = "loop"
    /\ bi < Len(functions)
    /\ LET st == StartAll(Batch(bi),
                    [task |-> task, value |-> semValue, queue |-> waiters])
       IN  /\ task' = st.task
           /\ semValue' = st.value
           /\ waiters' = st.queue
           /\ issued' = IF st.value < semValue THEN issued \cup {"config"}
                        ELSE issued
    /\ chunks' = Append(chunks, Batch(bi))
    /\ bpc' = "gather"
    /\ completion' = <<>>
    /\ UNCHANGED << HandlerVars, functions, bi, insights, throttles, faults >>

\* The result of one task: its row, or None (<<>>).
Result(k) ==
    IF task[k].pc = "row"
    THEN << Row(functions[k], task[k].config, task[k].metrics) >>
    ELSE <<>>

\* filter(None, results) for the tasks named by order, in that order.
RECURSIVE Rows(_)
Rows(order) ==
    IF order = <<>> THEN <<>> ELSE Result(Head(order)) \o Rows(Tail(order))

\* Mutant of GatherOrder: results in the order the tasks settled
\* (asyncio.as_completed).
GatherOrderCompleted(batch) == completion

\* Line 105: gather's result list follows the order of the awaitables passed.
GatherOrder(batch) == batch

\* Mutant of AllReturned: the wait ends with the first task that returns.
FirstReturned(batch) == \E k \in Range(batch) : task[k].pc \in {"row", "none"}

\* Line 105: gather returns once every awaitable has returned.
AllReturned(batch) == \A k \in Range(batch) : task[k].pc \in {"row", "none"}

\* Lines 105-107: every task of the chunk has returned; the rows join the
\* report and the loop moves on.
GatherReturn ==
    /\ hpc = "batch"
    /\ bpc = "gather"
    /\ AllReturned(Batch(bi))
    /\ insights' = insights \o Rows(GatherOrder(Batch(bi)))
    /\ bi' = bi + BATCH_SIZE
    /\ bpc' = "loop"
    /\ UNCHANGED << HandlerVars, issued, functions, chunks, task, semValue,
                    waiters, completion, throttles, faults >>

\* A task cancelled when the event loop is torn down: an admitted one leaves
\* `async with`, a waiting one leaves the waiters.  The thread of a call in
\* flight (asyncio.to_thread) is not interrupted.
Cancel(t) ==
    IF t.pc \in {"config", "metric", "sleep"} THEN Exit(t, "cancelled")
    ELSE IF t.pc = "waiting" THEN [t EXCEPT !.pc = "cancelled"]
    ELSE t

\* Line 105, then lines 90-92: a task of the chunk raised, gather raises it in
\* analyze_functions_in_batches, handle_event catches it and returns, and
\* asyncio.run (line 22) cancels the tasks that are left.
GatherRaise ==
    /\ hpc = "batch"
    /\ bpc = "gather"
    /\ \E k \in Range(Batch(bi)) : task[k].pc = "raised"
    /\ bpc' = "raised"
    /\ Caught("batch")
    /\ task' = [k \in Names |-> Cancel(task[k])]
    /\ semValue' = semValue
          + Cardinality({ k \in Names : task'[k].released > task[k].released })
    /\ waiters' = <<>>
    /\ UNCHANGED << event, window, issued, functions, bi, chunks, insights,
                    completion, throttles, faults, sheet >>

\* Lines 69-72: the header row, the keys of the first row in their order,
\* then one row of cells per item.
Render(rows) ==
    LET headers == Keys(rows[1])
    IN  << headers >>
        \o [r \in 1..Len(rows) |->
              [h \in 1..Len(headers) |-> DictGet(rows[r], headers[h], "")]]

\* Lines 109, 63-75: the loop is over and the report returned; an empty one
\* ends the invocation, any other is written to the workbook.
Assemble ==
    /\ hpc = "batch"
    /\ bpc = "loop"
    /\ bi >= Len(functions)
    /\ bpc' = "returned"
    /\ IF insights = <<>>
       THEN /\ Returns([statusCode |-> 500,
                        body |-> "No function metrics collected."])
            /\ sheet' = sheet
       ELSE /\ sheet' = Render(insights)
            /\ hpc' = "upload"
            /\ UNCHANGED << response, caught >>
    /\ UNCHANGED << event, window, issued, functions, bi, chunks, insights, task,
                    semValue, waiters, completion, throttles, faults >>

\* Lines 77-92: the upload answers.
Upload ==
    /\ hpc = "upload"
    /\ issued' = issued \cup {"upload"}
    /\ \/ /\ Returns([statusCode |-> 200,
                        body |-> "Lambda insights report generated."])
          /\ faults' = faults
       \/ \* the upload raises
          /\ MayFail
          /\ faults' = faults + 1
          /\ Caught("upload")
    /\ UNCHANGED << event, window, functions, bpc, bi, chunks, insights, task,
                    semValue, waiters, completion, throttles, sheet >>

--------------------------------------------------------------------------

Next ==
    \/ Validate
    \/ ListFunctions
    \/ Launch
    \/ \E i \in Names : Admit(i)
    \/ \E i \in Names : ConfigReturn(i)
    \/ \E i \in Names : MetricReturn(i)
    \/ \E i \in Names : SleepEnd(i)
    \/ GatherReturn
    \/ GatherRaise
    \/ Assemble
    \/ Upload

Spec == Init /\ [][Next]_vars

--------------------------------------------------------------------------
(* Properties                                                              *)

Last(s) == s[Len(s)]

\* The tasks admitted by the semaphore that have not released it.
Holders == { i \in Names : task[i].acquired > task[i].released }

\* C1: at every instant at most MAX_CONCURRENT_TASKS analyses have been
\* admitted by the gate and have not yet released it, also when a chunk
\* launches more tasks than that.
GateBound == Cardinality(Holders) <= MAX_CONCURRENT_TASKS

\* The gate is full and a launched task waits for a slot.
GateFullWithWaiter ==
    /\ waiters # <<>>
    /\ Cardinality(Holders) = MAX_CONCURRENT_TASKS

\* C2 (as claimed): whatever the remote calls answer, no error escapes
\* analyze_function or analyze_functions_in_batches.
NoErrorEscapes ==
    /\ \A i \in Names : task[i].pc # "raised"
    /\ bpc # "raised"

\* The chunk (from 0) of the function at position k of the list.
ChunkOf(k) == (k - 1) \div BATCH_SIZE

\* C3: no analysis of a later chunk is launched or admitted before every
\* analysis of the earlier chunks has returned a row or no row.
ChunkBarrier ==
    \A j, k \in 1..Len(functions) :
        (ChunkOf(j) < ChunkOf(k) /\ task[k].pc # "idle")
            => task[j].pc \in {"row", "none"}

\* An analysis of the second chunk is under way.
SecondChunkStarted ==
    \E k \in 1..Len(functions) :
        ChunkOf(k) > 0 /\ task[k].pc \in {"config", "metric", "sleep"}

\* The names of the report's rows, in report order.
RowNames ==
    [r \in 1..Len(insights) |-> DictGet(insights[r], "Function Name", 0)]

\* The position of a function name in the listed functions.
NameIndex(name) == CHOOSE k \in 1..Len(functions) : functions[k] = name

\* The tasks of the last gathered chunk that returned a row, in the order
\* in which they settled.
CompletedWithRow ==
    LET HasRow(k) == task[k].pc = "row" IN SelectSeq(completion, HasRow)

\* C4 (as claimed): the rows a chunk appends to the report are in the order
\* in which their analyses completed.
RowsInCompletionOrder ==
    (bpc = "loop" /\ completion # <<>>) =>
        LET done == CompletedWithRow
        IN  /\ Len(done) <= Len(insights)
            /\ SubSeq(RowNames, Len(insights) - Len(done) + 1, Len(insights))
                 = [k \in 1..Len(done) |-> functions[done[k]]]

\* C4 (amended): the rows of the report are in the order of the functions in
\* the input list, whatever the order in which the analyses completed.
RowsInInputOrder ==
    \A a, b \in 1..Len(insights) :
        a < b => NameIndex(RowNames[a]) < NameIndex(RowNames[b])

\* A chunk has been gathered in which a later function's analysis settled
\* before an earlier one's, both with a row.
CompletedOutOfInputOrder ==
    /\ bpc = "loop"
    /\ \E a, b \in 1..Len(completion) :
          /\ a < b
          /\ completion[a] > completion[b]
          /\ task[completion[a]].pc = "row"
          /\ task[completion[b]].pc = "row"
          /\ functions[completion[a]] \in Range(RowNames)
          /\ functions[completion[b]] \in Range(RowNames)

\* C5: an analysis holds its slot from admission until it settles, through
\* the configuration fetch, the metric fetches and every backoff sleep, and
\* releases it exactly once when it settles, with a row or with no row; the
\* semaphore's value counts the sleeping analyses as active.
SlotHeldUntilSettled ==
    /\ \A i \in Names :
          LET t == task[i]
          IN  /\ t.pc \in {"idle", "waiting"} =>
                    t.acquired = 0 /\ t.released = 0
              /\ t.pc \in {"config", "metric", "sleep"} =>
                    t.acquired = 1 /\ t.released = 0
              /\ t.pc \in {"row", "none", "raised"} =>
                    t.acquired = 1 /\ t.released = 1
              /\ t.pc = "cancelled" =>
                    t.acquired = t.released /\ t.acquired <= 1
    /\ bpc # "idle" =>
          semValue = MAX_CONCURRENT_TASKS
             - Cardinality({ i \in Names :
                               task[i].pc \in {"config", "metric", "sleep"} })

\* An analysis sleeps in backoff, still holding its slot, while the gate is
\* full and a launched analysis waits for a slot.
SleeperFillsGate ==
    /\ semValue = 0
    /\ waiters # <<>>
    /\ \E i \in Names :
          /\ task[i].pc = "sleep"
          /\ task[i].acquired = 1 /\ task[i].released = 0

\* Task i takes a step of its own (not a cancellation) from position pc.
Steps(i, pc) ==
    /\ task[i].pc = pc
    /\ task'[i] # task[i]
    /\ task'[i].pc # "cancelled"

\* C6: a metric fetch throttled on every attempt issues exactly MAX_RETRIES
\* queries: after a backoff it queries again while fewer have been issued, and
\* after the MAX_RETRIES-th it returns 0.
RetryExhaustion ==
    [][ \A i \in Names :
          Steps(i, "sleep") =>
             /\ task[i].throttled = task[i].queries
             /\ IF task[i].queries < MAX_RETRIES
                THEN /\ task'[i].pc = "metric"
                     /\ task'[i].m = task[i].m
                     /\ task'[i].queries = task[i].queries + 1
                ELSE /\ task[i].queries = MAX_RETRIES
                     /\ Len(task'[i].metrics) = Len(task[i].metrics) + 1
                     /\ Last(task'[i].metrics) = 0
                     /\ task'[i].returned = 0
                     /\ task'[i].pc = "metric" =>
                           task'[i].m = task[i].m + 1 ]_vars

\* A fetch has returned 0 after MAX_RETRIES Throttling answers.
RetriesExhausted ==
    /\ Len(functions) = 1
    /\ throttles = MAX_RETRIES
    /\ faults = 0
    /\ task[1].answer.code = "Throttling"
    /\ task[1].metrics = << 0 >>
    /\ task[1].returned = 0

\* C7: a metric fetch throttled on its first R attempts (R < MAX_RETRIES) and
\* then answered returns the first datapoint's value (0 when there is none)
\* after exactly R + 1 queries, having slept RETRY_SLEEP * 2^attempt after
\* each throttled attempt: RETRY_SLEEP * (2^R - 1) in all.
BackoffThenSuccess ==
    [][ /\ \A i \in Names :
          (Steps(i, "metric") /\ task'[i].answer.kind = "ok") =>
             LET R == task[i].throttled
                 d == task'[i].answer.Datapoints
             IN  /\ R < MAX_RETRIES
                 /\ task[i].queries = R + 1
                 /\ task[i].slept = RETRY_SLEEP * (2 ^ R - 1)
                 /\ task'[i].returned = IF d # <<>> THEN d[1] ELSE 0
                 /\ Len(task'[i].metrics) = Len(task[i].metrics) + 1
        /\ \A i \in Names :
          (Steps(i, "sleep") /\ task'[i].pc = "metric"
                             /\ task'[i].m = task[i].m) =>
             /\ task[i].throttled = task[i].attempt + 1
             /\ task'[i].slept - task[i].slept
                   = RETRY_SLEEP * (2 ^ task[i].attempt) ]_vars

\* A fetch has returned the datapoint's value after MAX_RETRIES - 1 Throttling
\* answers.
SucceededAfterBackoff ==
    /\ Len(functions) = 1
    /\ throttles = MAX_RETRIES - 1
    /\ task[1].answer.kind = "ok"
    /\ task[1].answer.Datapoints # <<>>
    /\ Len(task[1].metrics) = 1
    /\ task[1].returned = 1500

RowCount(k) ==
    Cardinality({ r \in 1..Len(insights) : RowNames[r] = functions[k] })

\* C9 (as claimed): once the batch has run, the report has exactly one row
\* for a function if and only if its configuration fetch succeeded; a failing
\* metric fetch removes no row.
RowPresence ==
    (hpc = "done" /\ bpc # "idle") =>
        \A k \in 1..Len(functions) :
            IF task[k].config # NoConfig
            THEN RowCount(k) = 1 ELSE RowCount(k) = 0

\* C10 (as claimed): a request whose start_date is equal to or later than its
\* end_date is rejected with a validation error and no remote call is issued.
EqualOrReversedDatesRejected ==
    ( /\ hpc # "start"
      /\ event.body = "dict"
      /\ event.region # "" /\ event.bucket_name # ""
      /\ StrptimeOk(event.start_date) /\ StrptimeOk(event.end_date)
      /\ Strptime(event.start_date) >= Strptime(event.end_date) ) =>
        /\ hpc = "done"
        /\ response.statusCode = 400
        /\ issued = {}

\* The request holds a body with the four fields and two dates that name days.
WellFormed ==
    /\ event.body = "dict"
    /\ event.region # "" /\ event.bucket_name # ""
    /\ StrptimeOk(event.start_date) /\ StrptimeOk(event.end_date)

\* The metric queries in flight.
MetricCalls(i) == { c \in task[i].calls : c.op = "get_metric_statistics" }

FieldErrorsAreValidationErrors ==
    ( /\ hpc # "start"
      /\ event.body = "dict"
      /\ \/ event.region = "" \/ event.bucket_name = ""
         \/ ~StrptimeOk(event.start_date) \/ ~StrptimeOk(event.end_date) ) =>
        /\ hpc = "done"
        /\ response.statusCode = 400
        /\ response # build_response(500, "Internal server error.")
        /\ issued = {}

\* The configuration fetch of the function at position k failed.
ConfigFailed(k) ==
    \/ task[k].pc = "none"
    \/ task[k].pc = "raised" /\ task[k].config = NoConfig

\* C13 (as claimed): when the function list is empty or every configuration
\* fetch failed, the invocation ends with "No function metrics collected.",
\* nothing rendered or uploaded and no exception caught on the way.
EmptyReport ==
    ( /\ hpc = "done"
      /\ bpc # "idle"
      /\ \A k \in 1..Len(functions) : ConfigFailed(k) ) =>
        /\ response = [statusCode |-> 500,
                       body |-> "No function metrics collected."]
        /\ response # build_response(500, "Internal server error.")
        /\ response.statusCode # 400
        /\ sheet = <<>>
        /\ "upload" \notin issued
        /\ caught = ""
        /\ bpc = "returned"

\* The dict d without its item number h.
Without(d, h) ==
    [k \in 1..(Len(d) - 1) |-> IF k < h THEN d[k] ELSE d[k + 1]]

\* C14: every row of the report carries the same keys in the same order as
\* the first row, so the header covers every row and no cell is the
\* empty-string default; a row lacking a header key would get the empty
\* string in that cell, with no error.
ReportSchema ==
    /\ \A r \in 1..Len(insights) :
          Keys(insights[r])
             = << "Function Name", "Runtime", "Memory Size (MB)",
                  "Timeout (sec)", "Package Type", "Provisioned Concurrency",
                  "Cold Start Risk", "Invocations", "Errors", "Throttles",
                  "Duration (sec)", "ConcurrentExecutions" >>
    /\ sheet # <<>> =>
          /\ Len(sheet) = Len(insights) + 1
          /\ sheet[1] = Keys(insights[1])
          /\ \A r \in 1..Len(insights) :
                /\ Keys(insights[r]) = sheet[1]
                /\ Len(sheet[r + 1]) = Len(sheet[1])
                /\ \A h \in 1..Len(sheet[1]) :
                      sheet[r + 1][h] = insights[r][h][2]
    /\ hpc = "start" =>
          LET first == Row(1, ConfigOf(1), << 0, 0, 0, 0, 0 >>)
              other == Row(2, ConfigOf(2), << 0, 0, 0, 0, 0 >>)
          IN  \A h \in 1..Len(other) :
                 LET out == Render(<< first, Without(other, h) >>)
                 IN  /\ Len(out[3]) = Len(out[1])
                     /\ out[3][h] = ""

\* A report of several rows has been written to the worksheet.
SheetOfSeveralRows == Len(sheet) > 2

\* C16: a failure other than a validation rejection or an empty report that
\* reaches handle_event, from json.loads, strptime, the listing, the batch or
\* the upload, is caught there and answered with the generic internal error;
\* handle_event never raises.
TopBoundaryContainment ==
    /\ hpc \in {"start", "list", "batch", "upload", "done"}
    /\ caught # "" =>
          /\ hpc = "done"
          /\ response = build_response(500, "Internal server error.")
    /\ bpc = "raised" => caught = "batch"
    /\ (hpc # "start" /\ event.body = "badjson") => caught = "json"
    /\ (hpc = "done" /\ "list" \in issued /\ bpc = "idle") => caught = "list"
    /\ (hpc = "done" /\ "upload" \in issued /\ response.statusCode # 200)
          => caught = "upload"
    /\ hpc = "done" =>
          \/ response.statusCode = 400
          \/ response = [statusCode |-> 500,
                         body |-> "No function metrics collected."]
          \/ response = [statusCode |-> 200,
                         body |-> "Lambda insights report generated."]
          \/ response = build_response(500, "Internal server error.")

\* The upload failed and the invocation ended with the generic error.
UploadFailureCaught == caught = "upload" /\ hpc = "done"

\* Configurations over which the classification is checked: every mix of
\* the three keys, present or absent.
ConfigSpace ==
    LET M == {0, 128, 255, 256, 512}
        R == {"python3.12", "java17", "java8.al2", "nodejs20.x"}
        A == { <<"x86_64">>, <<"arm64">> }
    IN  [MemorySize : M, Runtime : R, Architectures : A]
        \cup [MemorySize : M, Runtime : R] \cup [MemorySize : M]
        \cup [Runtime : R, Architectures : A] \cup [Runtime : R]
        \cup [MemorySize : M, Architectures : A] \cup [Architectures : A]

\* High exactly when memory < 256, or a java runtime, or arm64 first.
RiskAsClaimed(config, risk) ==
    /\ risk \in {"High", "Low"}
    /\ risk = "High" <=>
          \/ ConfigGet(config, "MemorySize", 0) < 256
          \/ ConfigGet(config, "Runtime", "unknown")
                \in {"java8", "java8.al2", "java11", "java17", "java21"}
          \/ ConfigGet(config, "Architectures", <<"x86_64">>)[1] = "arm64"

\* C17: the cold-start risk of every row is High exactly when the function's
\* memory size is below 256, or its runtime name starts with "java", or its
\* first architecture is "arm64", and Low otherwise; it is determined by the
\* configuration alone.
ColdStartClassification ==
    /\ \A r \in 1..Len(insights) :
          RiskAsClaimed(ConfigOf(RowNames[r]),
                        DictGet(insights[r], "Cold Start Risk", ""))
    /\ hpc = "start" =>
          /\ \A c \in ConfigSpace : RiskAsClaimed(c, ColdStartRisk(c))
          /\ ColdStartRisk([MemorySize |-> 128]) = "High"
          /\ ColdStartRisk([MemorySize |-> 512, Runtime |-> "python3.12",
                            Architectures |-> <<"x86_64">>]) = "Low"
          /\ ColdStartRisk([MemorySize |-> 512,
                            Architectures |-> <<"arm64">>]) = "High"

\* The report holds a row of each risk.
RowsOfBothRisks ==
    /\ \E r \in 1..Len(insights) :
          DictGet(insights[r], "Cold Start Risk", "") = "High"
    /\ \E r \in 1..Len(insights) :
          DictGet(insights[r], "Cold Start Risk", "") = "Low"

\* The positions of the gathered chunks, one after the other.
RECURSIVE Concat(_)
Concat(ss) == IF ss = <<>> THEN <<>> ELSE Head(ss) \o Concat(Tail(ss))

\* The analyses launched and not settled.
Unsettled ==
    { k \in Names : task[k].pc \in {"waiting", "config", "metric", "sleep"} }

PerResourceOrdering ==
    \A i \in Names :
        /\ (task[i].total > 0 \/ MetricCalls(i) # {}
               \/ task[i].pc \in {"metric", "sleep", "row"}) =>
              /\ task[i].acquired = 1
              /\ task[i].config = ConfigOf(functions[i])
        /\ task[i].pc \in {"idle", "waiting", "config"} =>
              task[i].total = 0 /\ MetricCalls(i) = {}
        /\ (i \in 1..Len(functions) /\ ConfigFailed(i)) =>
              /\ task[i].total = 0
              /\ MetricCalls(i) = {}
              /\ task[i].metrics = <<>>

\* One analysis has ended on a failed configuration fetch while another has
\* issued metric queries.
FailedFetchBesideQueries ==
    \E i, j \in Names : task[i].pc = "none" /\ task[j].total > 0

\* The remote calls in flight, each with the task that issued it.
InFlight == UNION { { << i, c >> : c \in task[i].calls } : i \in Names }

\* C20: within one analysis the five metrics are fetched one at a time in
\* the order Invocations, Errors, Throttles, Duration, ConcurrentExecutions,
\* each fetch settling, backoff sleeps included, before the next is queried;
\* so every analysis has at most one remote call in flight, at most
\* MAX_CONCURRENT_TASKS calls are in flight in all, and one analysis issues
\* at most 5 * MAX_RETRIES metric queries.
SequentialMetrics ==
    LET order == << "Invocations", "Errors", "Throttles", "Duration",
                    "ConcurrentExecutions" >>
    IN  /\ \A i \in Names :
              LET t == task[i]
              IN  /\ Cardinality(t.calls) <= 1
                  /\ t.pc \in {"metric", "sleep"} =>
                        /\ t.m = Len(t.metrics) + 1
                        /\ t.m \in 1..5
                        /\ t.queries \in 1..MAX_RETRIES
                        /\ t.total <= (t.m - 1) * MAX_RETRIES + t.queries
                  /\ t.pc = "metric" =>
                        \A c \in t.calls : c.MetricName = order[t.m]
                  /\ t.pc = "sleep" => t.calls = {}
                  /\ t.pc = "row" => Len(t.metrics) = 5
                  /\ Len(t.metrics) <= t.total
                  /\ t.total <= 5 * MAX_RETRIES
        /\ Cardinality(InFlight) <= MAX_CONCURRENT_TASKS

\* The gate is full of analyses each with a call in flight, one of them past
\* its first metric after a backoff, while another analysis waits.
GateFullOfCalls ==
    /\ Cardinality(InFlight) = MAX_CONCURRENT_TASKS
    /\ waiters # <<>>
    /\ \E i \in Names :
          /\ task[i].pc = "metric"
          /\ task[i].total > Len(task[i].metrics) + 1

\* C15 (as claimed): every launched analysis is admitted and settles, by
\* completion or by retry exhaustion, and the batch returns; while an
\* analysis waits at the gate, a slot is free or an admitted analysis has a
\* call or a sleep under way, so the wait cannot last for ever.
Termination ==
    /\ (bpc = "gather" /\ waiters # <<>>) =>
          \/ semValue > 0
          \/ \E i \in Names : task[i].pc \in {"config", "metric", "sleep"}
    /\ (hpc = "done" /\ bpc # "idle") =>
          /\ bpc = "returned"
          /\ \A k \in 1..Len(functions) :
                /\ task[k].acquired = 1
                /\ task[k].pc \in {"row", "none"}

====
